---------------------------- MODULE Spec2Model ----------------------------
(***************************************************************************)
(* Model of the statistical pipeline of mahalanobis-brush:                 *)
(*   getSubsampledData  (src/src/utils/getMahalanobis.ts:34-97)            *)
(*   getCovariance      (src/src/utils/getCovariance.ts:6-39)              *)
(*   getMahalanobis     (src/src/utils/getMahalanobis.ts:9-21)             *)
(*   updateChart        (src/src/components/Chart.tsx:318-475)             *)
(*                                                                         *)
(* Representation.                                                         *)
(*  - A point is a tuple of integers; a dataset is a sequence of points.   *)
(*    An array of points that was derived from the dataset (a subsample)   *)
(*    is a sequence of 1-based positions into the dataset: JavaScript      *)
(*    arrays hold references, so an element of a subsample IS an element   *)
(*    of the dataset.  Position i is JavaScript index i - 1.               *)
(*  - A JavaScript number that the pipeline computes from the points is a  *)
(*    record: Fin(n, d) is the rational n/d (d > 0), NaN and PosInf are    *)
(*    the IEEE special values.  Rational arithmetic is exact.              *)
(*  - A Mahalanobis distance sqrt(r) is represented by r: sqrt is strictly *)
(*    increasing on the non-negative numbers and maps NaN to NaN, so every *)
(*    comparison of two distances is the comparison of their squares.      *)
(*  - Math.floor(data.length * (percentage / 100)) is computed in IEEE-754 *)
(*    binary64, bit by bit: the rounding of percentage / 100 decides the   *)
(*    integer that Math.floor returns.                                     *)
(***************************************************************************)
EXTENDS Integers, Sequences, FiniteSets, TLC

(***************************************************************************)
(* IEEE-754 binary64, as far as Chart.tsx:432 needs it: the quotient of    *)
(* two integers, the product of an integer and a double, and Math.floor.   *)
(* A double is [sign, bits, exp]: bits are the MantissaBits significand    *)
(* bits, most significant first, exp is the binary exponent of the first   *)
(* bit; bits = << >> is zero.                                              *)
(***************************************************************************)
MantissaBits == 53

PercentBase == 100

RECURSIVE Pow2(_)
Pow2(k) == IF k <= 0 THEN 1 ELSE 2 * Pow2(k - 1)

Abs(x) == IF x < 0 THEN 0 - x ELSE x

\* TLC re-evaluates an operator's argument at every use inside an action, so
\* the recursions below run over an index into a fixed bit string, and
\* Eager(S) names the one element of a singleton set: its use as
\* "\E v \in {e} : ..." or "{F(v) : v \in {e}}" evaluates e once.
Eager(S) == CHOOSE v \in S : TRUE

RECURSIVE BitLen(_)
BitLen(n) == IF n = 0 THEN 0 ELSE 1 + BitLen(n \div 2)

\* The binary digits of n >= 0, most significant first (<< >> for 0).
BitsOfNat(n) ==
    Eager({ [i \in 1..len |-> (n \div Pow2(len - i)) % 2] : len \in {BitLen(n)} })

\* The number whose binary digits are the first k bits of bs.
RECURSIVE NatOfBits(_, _)
NatOfBits(bs, k) == IF k = 0 THEN 0 ELSE 2 * NatOfBits(bs, k - 1) + bs[k]

\* bs + 1; one bit longer when bs is all ones.
IncBits(bs) ==
    IF \A i \in 1..Len(bs) : bs[i] = 1
    THEN << 1 >> \o [i \in 1..Len(bs) |-> 0]
    ELSE LET z == CHOOSE i \in 1..Len(bs) :
                      bs[i] = 0 /\ \A j \in (i + 1)..Len(bs) : bs[j] = 1
         IN  [i \in 1..Len(bs) |-> IF i < z THEN bs[i] ELSE IF i = z THEN 1 ELSE 0]

Zeros(k) == [i \in 1..k |-> 0]

\* Round an exact significand (leading bit 1, exponent exp of that bit, sticky
\* = some nonzero value lies beyond the last bit) to MantissaBits bits, to
\* nearest, ties to even.
RoundToDouble(sign, bs, exp, sticky) ==
    IF Len(bs) <= MantissaBits
    THEN [sign |-> sign, bits |-> bs \o Zeros(MantissaBits - Len(bs)), exp |-> exp]
    ELSE LET kept  == SubSeq(bs, 1, MantissaBits)
             guard == bs[MantissaBits + 1]
             rest  == sticky \/ \E i \in (MantissaBits + 2)..Len(bs) : bs[i] = 1
             up    == guard = 1 /\ (rest \/ kept[MantissaBits] = 1)
             inc   == IncBits(kept)
         IN  IF ~up THEN [sign |-> sign, bits |-> kept, exp |-> exp]
             ELSE IF Len(inc) > MantissaBits
                  THEN [sign |-> sign, bits |-> SubSeq(inc, 1, MantissaBits),
                        exp |-> exp + 1]
                  ELSE [sign |-> sign, bits |-> inc, exp |-> exp]

FZero == [sign |-> 1, bits |-> << >>, exp |-> 0]

\* Long division: the first k quotient bits of r / q, for q <= r < 2q at the
\* start, and the remainder left after them.  (Recursive functions: TLC
\* evaluates a function's argument once, before the application.)
QuotBits[r \in Nat, q \in Nat, k \in Nat] ==
    IF k = 0 THEN << >>
    ELSE IF r >= q THEN << 1 >> \o QuotBits[2 * (r - q), q, k - 1]
         ELSE << 0 >> \o QuotBits[2 * r, q, k - 1]

QuotRem[r \in Nat, q \in Nat, k \in Nat] ==
    IF k = 0 THEN r
    ELSE IF r >= q THEN QuotRem[2 * (r - q), q, k - 1]
         ELSE QuotRem[2 * r, q, k - 1]

\* The largest e >= 0 with b * 2^e <= a (a >= b > 0).
RECURSIVE ExpUp(_, _)
ExpUp(a, b) == IF 2 * b <= a THEN 1 + ExpUp(a, 2 * b) ELSE 0

\* The smallest j >= 0 with a * 2^j >= b (a > 0).
RECURSIVE ExpDown(_, _)
ExpDown(a, b) == IF a >= b THEN 0 ELSE 1 + ExpDown(2 * a, b)

\* a / b in binary64, for integers a and b > 0.
FDivInt(a, b) ==
    IF a = 0 THEN FZero
    ELSE LET m  == Abs(a)
             e  == IF m >= b THEN ExpUp(m, b) ELSE 0 - ExpDown(m, b)
             r0 == IF e >= 0 THEN m ELSE m * Pow2(0 - e)
             q0 == IF e >= 0 THEN b * Pow2(e) ELSE b
         IN  Eager({ RoundToDouble(IF a < 0 THEN -1 ELSE 1, bs, e,
                                   QuotRem[r0, q0, MantissaBits + 1] # 0)
                     : bs \in {QuotBits[r0, q0, MantissaBits + 1]} })

\* The bits of bs[1..k] * n + carry: schoolbook multiplication by the small
\* factor n, from the last bit to the first.
MulBits[bs \in Seq({0, 1}), n \in Nat, k \in Nat, carry \in Nat] ==
    IF k = 0 THEN BitsOfNat(carry)
    ELSE MulBits[bs, n, k - 1, (n * bs[k] + carry) \div 2]
           \o << (n * bs[k] + carry) % 2 >>

\* n * x in binary64, for an integer n >= 0 and a double x.
FMulInt(n, x) ==
    Eager({ IF n = 0 \/ xv.bits = << >> THEN FZero
            ELSE Eager({ RoundToDouble(xv.sign, p, xv.exp + (Len(p) - MantissaBits), FALSE)
                         : p \in {MulBits[xv.bits, n, MantissaBits, 0]} })
            : xv \in {x} })

\* Math.floor of a double whose integer part fits an integer.
FFloor(x) ==
    Eager({ IF xv.bits = << >> THEN 0
            ELSE LET ip   == IF xv.exp < 0 THEN 0 ELSE NatOfBits(xv.bits, xv.exp + 1)
                     frac == \E i \in 1..MantissaBits : i > xv.exp + 1 /\ xv.bits[i] = 1
                 IN  IF xv.sign = 1 THEN ip
                     ELSE 0 - (ip + (IF frac THEN 1 ELSE 0))
            : xv \in {x} })

\* Math.floor(data.length * (percentage / 100))
\* A faulty variant of ThresholdIndex, for sensitivity: the percentage is
\* counted from the top, n * ((100 - percentage) / 100).
ThresholdIndexFromTop(n, percentage) ==
    FFloor(FMulInt(n, FDivInt(PercentBase - percentage, PercentBase)))

ThresholdIndex(n, percentage) ==
    FFloor(FMulInt(n, FDivInt(percentage, PercentBase)))

(***************************************************************************)
(* JavaScript numbers computed from the points.                            *)
(***************************************************************************)
GcdOf[a \in Nat, b \in Nat] == IF b = 0 THEN a ELSE GcdOf[b, a % b]

\* The rational n / d, d > 0, in lowest terms.
Fin(n, d) ==
    LET g == GcdOf[Abs(n), d]
    IN  [k |-> "fin", n |-> n \div g, d |-> d \div g]

NaN == [k |-> "nan", n |-> 0, d |-> 0]

PosInf == [k |-> "inf", n |-> 1, d |-> 0]

IsNaN(a) == a.k = "nan"

\* A faulty variant of Leq, for sensitivity: !(a > b), true for NaN.
LeqOrUnordered(a, b) ==
    \/ a.k = "nan"
    \/ b.k = "nan"
    \/ b.k = "inf"
    \/ (a.k = "fin" /\ a.n * b.d <= b.n * a.d)

\* a <= b as JavaScript evaluates it: false when either side is NaN.
Leq(a, b) ==
    /\ a.k # "nan"
    /\ b.k # "nan"
    /\ b.k = "inf" \/ (a.k = "fin" /\ a.n * b.d <= b.n * a.d)

JsNumbers == [k : {"fin", "nan", "inf"}, n : Int, d : Int]

\* Arithmetic on these numbers: NaN propagates, a finite result is exact;
\* 0 / 0 is NaN and x / 0 an infinity.  The operands are evaluated once.
JsArith[op \in {"+", "-", "*", "/"}, a \in JsNumbers, b \in JsNumbers] ==
    IF a.k # "fin" \/ b.k # "fin" THEN NaN
    ELSE CASE op = "+" -> Fin(a.n * b.d + b.n * a.d, a.d * b.d)
           [] op = "-" -> Fin(a.n * b.d - b.n * a.d, a.d * b.d)
           [] op = "*" -> Fin(a.n * b.n, a.d * b.d)
           [] op = "/" ->
                IF b.n = 0 THEN (IF a.n = 0 THEN NaN ELSE PosInf)
                ELSE IF b.n > 0 THEN Fin(a.n * b.d, a.d * b.n)
                ELSE Fin(0 - a.n * b.d, a.d * (0 - b.n))

JsAdd(a, b) == JsArith["+", a, b]

JsSub(a, b) == JsArith["-", a, b]

JsMul(a, b) == JsArith["*", a, b]

JsDiv(a, b) == JsArith["/", a, b]

(***************************************************************************)
(* getCovariance: getCovariance.ts:6-39.                                   *)
(***************************************************************************)
\* The sum of coordinate i over points[1..k].
RECURSIVE CoordinateSum(_, _, _)
CoordinateSum(points, i, k) ==
    IF k = 0 THEN 0 ELSE CoordinateSum(points, i, k - 1) + points[k][i]

\* means[i] += point[i] for every point, then means[i] /= data.length
MeanOf(points, i) ==
    JsDiv(Fin(CoordinateSum(points, i, Len(points)), 1), Fin(Len(points), 1))

\* A faulty variant of ProductSum, for sensitivity: coordinate i twice.
RECURSIVE ProductSumSkewed(_, _, _, _, _)
ProductSumSkewed(points, means, i, j, k) ==
    IF k = 0 THEN Fin(0, 1)
    ELSE JsAdd(ProductSumSkewed(points, means, i, j, k - 1),
               JsMul(JsSub(Fin(points[k][i], 1), means[i]),
                     JsSub(Fin(points[k][i], 1), means[i])))

\* covMatrix[i][j] += (point[i] - means[i]) * (point[j] - means[j]) over
\* points[1..k]
RECURSIVE ProductSum(_, _, _, _, _)
ProductSum(points, means, i, j, k) ==
    IF k = 0 THEN Fin(0, 1)
    ELSE JsAdd(ProductSum(points, means, i, j, k - 1),
               JsMul(JsSub(Fin(points[k][i], 1), means[i]),
                     JsSub(Fin(points[k][j], 1), means[j])))

\* A faulty variant of GetCovariance, for sensitivity: divides by n.
GetCovarianceByN(points, dims) ==
    Eager({ [i \in 1..dims |-> [j \in 1..dims |->
                JsDiv(ProductSum(points, means, i, j, Len(points)),
                      Fin(Len(points), 1))]]
            : means \in {[i \in 1..dims |-> MeanOf(points, i)]} })

\* covMatrix[i][j] /= data.length - 1
GetCovariance(points, dims) ==
    Eager({ [i \in 1..dims |-> [j \in 1..dims |->
                JsDiv(ProductSum(points, means, i, j, Len(points)),
                      Fin(Len(points) - 1, 1))]]
            : means \in {[i \in 1..dims |-> MeanOf(points, i)]} })

(***************************************************************************)
(* getMahalanobis: getMahalanobis.ts:9-21, for two dimensions.             *)
(* mathjs inv of a 2 x 2 matrix computes the determinant, throws "Cannot   *)
(* calculate inverse, determinant is zero" when it === 0, and otherwise    *)
(* divides the adjugate by it (a NaN determinant is not === 0).            *)
(***************************************************************************)
Determinant(m) == JsSub(JsMul(m[1][1], m[2][2]), JsMul(m[1][2], m[2][1]))

InverseThrows(m) == Determinant(m).k = "fin" /\ Determinant(m).n = 0

Inverse(m) ==
    Eager({ << << JsDiv(m[2][2], det), JsDiv(JsSub(Fin(0, 1), m[1][2]), det) >>,
               << JsDiv(JsSub(Fin(0, 1), m[2][1]), det), JsDiv(m[1][1], det) >> >>
            : det \in {Determinant(m)} })

\* A faulty variant of QuadraticForm, for sensitivity: a linear term is
\* added.
QuadraticFormPlusLinear(diff, inv) ==
    LET dx == Fin(diff[1], 1)
        dy == Fin(diff[2], 1)
    IN  JsAdd(JsAdd(JsMul(JsMul(dx, inv[1][1]), dx), JsMul(JsMul(dy, inv[2][2]), dy)),
              dx)

\* multiply(multiply(diff, invCovMatrix), transposedDiff)[0]
QuadraticForm(diff, inv) ==
    LET dx == Fin(diff[1], 1)
        dy == Fin(diff[2], 1)
    IN  JsAdd(JsMul(JsAdd(JsMul(dx, inv[1][1]), JsMul(dy, inv[2][1])), dx),
              JsMul(JsAdd(JsMul(dx, inv[1][2]), JsMul(dy, inv[2][2])), dy))

\* Math.sqrt(r), a distance being represented by its square: NaN for NaN and
\* for r < 0.
SquareRoot(r) == IF r.k = "fin" /\ r.n < 0 THEN NaN ELSE r

\* A faulty variant of GetMahalanobis, for sensitivity: point2 is ignored.
GetMahalanobisFromOrigin(point1, point2, covMatrix) ==
    SquareRoot(QuadraticForm(<< point1[1], point1[2] >>, Inverse(covMatrix)))

\* The value getMahalanobis returns when inv does not throw.
GetMahalanobis(point1, point2, covMatrix) ==
    SquareRoot(QuadraticForm(<< point1[1] - point2[1], point1[2] - point2[2] >>,
                             Inverse(covMatrix)))

(***************************************************************************)
(* Classification: Chart.tsx:429-452.                                      *)
(***************************************************************************)
PermutationsOf(n) ==
    { f \in [1..n -> 1..n] : \A i, j \in 1..n : f[i] = f[j] => i = j }

\* The place of distances[i] in the stable ascending order.
RankOf(distances, i) ==
    1 + Cardinality({ j \in 1..Len(distances) :
                        \/ Leq(distances[j], distances[i]) /\ ~Leq(distances[i], distances[j])
                        \/ distances[j] = distances[i] /\ j < i })

SortAscending(distances) ==
    Eager({ [r \in 1..Len(distances) |->
                distances[CHOOSE i \in 1..Len(distances) : ranks[i] = r]]
            : ranks \in {[i \in 1..Len(distances) |-> RankOf(distances, i)]} })

\* [...distances].sort((a, b) => a.distance - b.distance): the stable
\* ascending order when every comparison is a number.  With a NaN distance
\* the comparator returns NaN for some pairs, it is not a consistent
\* comparator, and the order is implementation-defined: any permutation.
SortOutcomes(distances) ==
    IF \A i \in 1..Len(distances) : ~IsNaN(distances[i])
    THEN {SortAscending(distances)}
    ELSE { [r \in 1..Len(distances) |-> distances[f[r]]]
           : f \in PermutationsOf(Len(distances)) }

\* sortedDistances[thresholdIndex]?.distance ?? Infinity
ThresholdAt(sortedDistances, thresholdIndex) ==
    IF thresholdIndex \in 0..(Len(sortedDistances) - 1)
    THEN sortedDistances[thresholdIndex + 1]
    ELSE PosInf

\* A faulty variant of IsSelected, for sensitivity: distance < threshold.
IsSelectedStrict(distance, threshold) ==
    Leq(distance, threshold) /\ ~Leq(threshold, distance)

\* const isSelected = distance <= threshold
IsSelected(distance, threshold) == Leq(distance, threshold)

NotClassified ==
    [done |-> FALSE, sortedDistances |-> << >>, thresholdIndex |-> 0,
     threshold |-> NaN, selected |-> << >>]

Classify(distances, percentage, sortedDistances) ==
    Eager({ [done            |-> TRUE,
             sortedDistances |-> sortedDistances,
             thresholdIndex  |-> ti,
             threshold       |-> ThresholdAt(sortedDistances, ti),
             selected        |-> [i \in 1..Len(distances) |->
                                    IsSelected(distances[i],
                                               ThresholdAt(sortedDistances, ti))]]
            : ti \in {ThresholdIndex(Len(distances), percentage)} })

SelectedCount(selected) == Cardinality({ i \in 1..Len(selected) : selected[i] })

(***************************************************************************)
(* getSubsampledData: getMahalanobis.ts:34-97.                             *)
(* A size is SizeUndefined or SizeOf(v) for an integer v.                  *)
(***************************************************************************)
MaxClusters == 10

ClusterDivisor == 50

SizeUndefined == [defined |-> FALSE, value |-> 0]

SizeOf(v) == [defined |-> TRUE, value |-> v]

Min(a, b) == IF a <= b THEN a ELSE b

Max(a, b) == IF a >= b THEN a ELSE b

\* Math.floor(a / b) for integers a and b # 0: no quotient of two integers of
\* this size rounds across an integer.
FloorDiv(a, b) == IF b > 0 THEN a \div b ELSE (0 - a) \div (0 - b)

Positions(n) == [i \in 1..n |-> i]

\* A faulty variant of SliceFront, for sensitivity: one element short.
SliceFrontShort(seq, size) ==
    IF size >= 0 THEN SubSeq(seq, 1, Min(size, Len(seq)) - 1)
    ELSE SubSeq(seq, 1, Max(0, Len(seq) + size))

\* seq.slice(0, size)
SliceFront(seq, size) ==
    IF size >= 0 THEN SubSeq(seq, 1, Min(size, Len(seq)))
    ELSE SubSeq(seq, 1, Max(0, Len(seq) + size))

\* A faulty variant of ReturnsData, for sensitivity: size > data.length.
ReturnsDataAbove(n, size) == ~size.defined \/ size.value = 0 \/ size.value > n

\* if (!size || size >= data.length) return data
ReturnsData(n, size) == ~size.defined \/ size.value = 0 \/ size.value >= n

Reverse(seq) == [i \in 1..Len(seq) |-> seq[Len(seq) + 1 - i]]

RotateLeft(seq) ==
    [i \in 1..Len(seq) |-> seq[IF i = Len(seq) THEN 1 ELSE i + 1]]

\* Longest array whose shuffles are all enumerated.
MaxShuffleLen == 3

\* array.sort(() => Math.random() - 0.5): a comparator that answers at
\* random leaves the array in some permutation.  Every permutation of a
\* short array; of a long one, three of them.
ShuffleOutcomes(seq) ==
    IF Len(seq) <= MaxShuffleLen
    THEN { [i \in 1..Len(seq) |-> seq[f[i]]] : f \in PermutationsOf(Len(seq)) }
    ELSE { seq, Reverse(seq), RotateLeft(seq) }

\* case "random"
RandomOutcomes(n, size) ==
    { SliceFront(shuffled, size) : shuffled \in ShuffleOutcomes(Positions(n)) }

\* A faulty variant of StrideIndices, for sensitivity: the step is one more.
StrideIndicesWide(n, size) ==
    Eager({ SelectSeq(Positions(n), LAMBDA i : (i - 1) % (Abs(step) + 1) = 0)
            : step \in {FloorDiv(n, size)} })

\* data.filter((_, index) => index % step === 0) with
\* step = Math.floor(data.length / size): index % step === 0 for an index
\* >= 0 holds exactly when |step| divides the index.
StrideIndices(n, size) ==
    Eager({ SelectSeq(Positions(n), LAMBDA i : step # 0 /\ (i - 1) % Abs(step) = 0)
            : step \in {FloorDiv(n, size)} })

\* A faulty variant of SystematicSample, for sensitivity: without .slice(0, size).
SystematicSampleUncut(n, size) ==
    Eager({ SelectSeq(Positions(n), LAMBDA i : step # 0 /\ (i - 1) % Abs(step) = 0)
            : step \in {FloorDiv(n, size)} })

\* case "systematic": the filtered points, cut by .slice(0, size).
SystematicSample(n, size) == SliceFront(StrideIndices(n, size), size)

\* const k = Math.min(10, Math.floor(size / 50))
ClusterCount(size) == Min(MaxClusters, FloorDiv(size, ClusterDivisor))

\* point.reduce((sum, val, i) => sum + Math.pow(val - center[i], 2), 0)
RECURSIVE SquaredDistance(_, _, _)
SquaredDistance(point, center, i) ==
    IF i = 0 THEN 0
    ELSE SquaredDistance(point, center, i - 1)
           + (point[i] - center[i]) * (point[i] - center[i])

\* A faulty variant of NearestCenter, for sensitivity: dist <= minDist, the
\* last center at the least distance.
NearestCenterLast(data, k, point) ==
    CHOOSE c \in 1..k :
        \A c2 \in 1..k :
            LET dc  == SquaredDistance(point, data[c], Len(point))
                dc2 == SquaredDistance(point, data[c2], Len(point))
            IN  dc < dc2 \/ (dc = dc2 /\ c >= c2)

\* The center the forEach loop keeps: the first one at the least distance
\* (dist < minDist is strict).  Centers are data[1..k].
NearestCenter(data, k, point) ==
    CHOOSE c \in 1..k :
        \A c2 \in 1..k :
            LET dc  == SquaredDistance(point, data[c], Len(point))
                dc2 == SquaredDistance(point, data[c2], Len(point))
            IN  dc < dc2 \/ (dc = dc2 /\ c <= c2)

\* clusters[c]: the positions of the points pushed to cluster c, in data order.
ClustersOf(data, k) ==
    Eager({ [c \in 1..k |-> SelectSeq(Positions(Len(data)), LAMBDA i : nearest[i] = c)]
            : nearest \in {[i \in 1..Len(data) |-> NearestCenter(data, k, data[i])]} })

\* A faulty variant of ClusterQuota, for sensitivity: rounds up.
ClusterQuotaUp(clusterLength, n, size) ==
    FFloor(FMulInt(size, FDivInt(clusterLength, n))) + 1

\* Math.floor((cluster.length / data.length) * size), in binary64.
ClusterQuota(clusterLength, n, size) ==
    FFloor(FMulInt(size, FDivInt(clusterLength, n)))

\* clusters.flatMap(...) over clusters[1..c]
RECURSIVE ClusterOutcomes(_, _, _, _)
ClusterOutcomes(clusters, c, n, size) ==
    IF c = 0 THEN { << >> }
    ELSE { prefix \o SliceFront(shuffled, ClusterQuota(Len(clusters[c]), n, size))
           : prefix \in ClusterOutcomes(clusters, c - 1, n, size),
             shuffled \in ShuffleOutcomes(clusters[c]) }

Returned(positions, same) ==
    [kind |-> "returned", positions |-> positions, sameArray |-> same, error |-> ""]

Thrown(error) ==
    [kind |-> "thrown", positions |-> << >>, sameArray |-> FALSE, error |-> error]

\* case "cluster": Array(k) throws a RangeError for k < 0; with k = 0 there is
\* no clusters[0] and the first clusters[nearestCenter].push throws a
\* TypeError.
ClusterResults(data, size) ==
    Eager({ IF k < 0 THEN {Thrown("RangeError")}
            ELSE IF k = 0 /\ Len(data) > 0 THEN {Thrown("TypeError")}
            ELSE { Returned(r, FALSE)
                   : r \in ClusterOutcomes(ClustersOf(data, k), k, Len(data), size) }
            : k \in {ClusterCount(size)} })

\* The outcomes of the switch, for a size that did not return data.
SwitchResults(data, size, method) ==
    CASE method = "random" ->
           { Returned(r, FALSE) : r \in RandomOutcomes(Len(data), size.value) }
      [] method = "systematic" ->
           { Returned(SystematicSample(Len(data), size.value), FALSE) }
      [] method = "cluster" -> ClusterResults(data, size.value)
      [] OTHER -> { Returned(Positions(Len(data)), TRUE) }

\* A faulty variant of DataAfterSwitch, for sensitivity: data itself is
\* reordered.
DataReordered(data, method) == Reverse(data)

\* The array data after the switch: random sorts the copy [...data],
\* systematic filters, cluster sorts the cluster arrays it has built itself;
\* nothing writes to data or to a point.
DataAfterSwitch(data, method) == data

\* The invocations that hold the array `before` see it as `after`.
ShareData(rs, before, after) ==
    [id \in 1..Len(rs) |->
        IF rs[id].props.data = before
        THEN [rs[id] EXCEPT !.props.data = after]
        ELSE rs[id]]

(***************************************************************************)
(* Bounds of the enumerated inputs.                                        *)
(***************************************************************************)
MaxLen == 3

MaxDist == 1

MaxPercentExcess == 3

MaxCoord == 1

MaxNegSize == 2

\* Lengths of the long datasets with pairwise distinct distances.
RampSizes == {50, 100}

DistanceValues == { Fin(v, 1) : v \in 0..MaxDist } \cup {NaN}

Ramp(n) == [i \in 1..n |-> Fin(i, 1)]

DistanceInputs ==
    UNION { [1..n -> DistanceValues] : n \in 1..MaxLen }
      \cup { Ramp(n) : n \in RampSizes }

Percentages == (0 - MaxPercentExcess)..(PercentBase + MaxPercentExcess)

\* Lengths and target sizes of the long datasets: a cluster count k >= 1
\* needs size >= 50 and more points than that.
LongSizes == {51, 101, 1000}

LongTargets == {40, 50, 100}

\* n points that cycle through the m * m points of a grid (m = 1: n equal
\* points).
PatternData(n, m) == [i \in 1..n |-> << (i - 1) % m, ((i - 1) \div m) % m >>]

SubsampleDatasets ==
    { PatternData(n, m) : n \in (1..MaxLen) \cup LongSizes, m \in 1..(MaxCoord + 1) }

SubsampleSizes ==
    {SizeUndefined}
      \cup { SizeOf(v) : v \in ((0 - MaxNegSize)..(MaxLen + 1)) \cup LongTargets }

SamplingMethods == {"random", "systematic", "cluster"}

MaxRunLen == 2

\* The four corners of a square of side 10, in the order of the dataset.
Square4 == << << 0, 0 >>, << 10, 0 >>, << 0, 10 >>, << 10, 10 >> >>

UnitSquare == { << x, y >> : x \in 0..1, y \in 0..1 }

RECURSIVE SeqsOver(_, _)
SeqsOver(S, n) ==
    IF n = 0 THEN { << >> }
    ELSE { Append(q, e) : q \in SeqsOver(S, n - 1), e \in S }

RunDatasets == {Square4} \cup UNION { SeqsOver(UnitSquare, n) : n \in 1..MaxRunLen }

RunPercentages == {0, 50, PercentBase}

RunSizes ==
    {SizeUndefined} \cup { SizeOf(v) : v \in (0 - MaxNegSize)..(MaxLen + 1) }

\* The props of Chart that updateChart reads.
PropsOf(data, selectedPoint, percentage, doSubsample, subsampleSize, samplingMethod) ==
    [data |-> data, selectedPoint |-> selectedPoint, percentage |-> percentage,
     doSubsample |-> doSubsample, subsampleSize |-> subsampleSize,
     samplingMethod |-> samplingMethod]

RunConfigs ==
    { PropsOf(d, ref, p, FALSE, SizeUndefined, "random")
      : d \in RunDatasets, ref \in {<< 0, 0 >>, << 1, 1 >>}, p \in RunPercentages }
    \cup
    { PropsOf(d, << 0, 0 >>, p, TRUE, size, m)
      : d \in RunDatasets, p \in RunPercentages, size \in RunSizes,
        m \in SamplingMethods }

VARIABLES clDistances, clPercentage, clResult,
          ssData, ssSize, ssMethod, ssResult,
          props, effectDue, runs, timers, chart, loading, performanceData,
          dsPoint1, dsPoint2, dsCov, dsResult

classifyVars == << clDistances, clPercentage, clResult >>

subsampleVars == << ssData, ssSize, ssMethod, ssResult >>

runVars == << props, effectDue, runs, timers, chart, loading, performanceData >>

distanceVars == << dsPoint1, dsPoint2, dsCov, dsResult >>

vars == << classifyVars, subsampleVars, runVars, distanceVars >>

NotCalled ==
    [kind |-> "none", positions |-> << >>, sameArray |-> FALSE, error |-> ""]

Pending ==
    [kind |-> "pending", positions |-> << >>, sameArray |-> FALSE, error |-> ""]

ClassifyIdle ==
    /\ clDistances = << >>
    /\ clPercentage = 0
    /\ clResult = NotClassified

SubsampleIdle ==
    /\ ssData = << >>
    /\ ssSize = SizeUndefined
    /\ ssMethod = "random"
    /\ ssResult = NotCalled

NoProps == PropsOf(<< >>, << 0, 0 >>, 0, FALSE, SizeUndefined, "random")

\* useState<PerformanceData | null>(null)
NoPerformanceData == [totalPoints |-> 0, sampledPoints |-> 0, method |-> "null"]

\* Chart's state: selectedPointsCount 0, currentPerformanceData null,
\* currentSelectedIndices the empty set.
InitialChart ==
    [selectedPointsCount |-> 0, currentPerformanceData |-> NoPerformanceData,
     currentSelectedIndices |-> {}]

NoDistance == [done |-> FALSE, forward |-> Thrown(""), backward |-> Thrown("")]

DistanceIdle ==
    /\ dsPoint1 = << 0, 0 >>
    /\ dsPoint2 = << 0, 0 >>
    /\ dsCov = << >>
    /\ dsResult = NoDistance

RunIdle ==
    /\ props = NoProps
    /\ effectDue = FALSE
    /\ runs = << >>
    /\ timers = << >>
    /\ chart = InitialChart
    /\ loading = FALSE
    /\ performanceData = NoPerformanceData

(***************************************************************************)
(* SpecClassify: the classification of one array of distances.             *)
(***************************************************************************)
InitClassify ==
    /\ clDistances \in DistanceInputs
    /\ clPercentage \in Percentages
    /\ clResult = NotClassified
    /\ SubsampleIdle
    /\ RunIdle
    /\ DistanceIdle

ClassifyPoints ==
    /\ clDistances # << >>
    /\ ~clResult.done
    /\ \E sortedDistances \in SortOutcomes(clDistances) :
          clResult' = Classify(clDistances, clPercentage, sortedDistances)
    /\ UNCHANGED << clDistances, clPercentage, subsampleVars, runVars, distanceVars >>

NextClassify == ClassifyPoints

SpecClassify == InitClassify /\ [][NextClassify]_vars

(***************************************************************************)
(* SpecSubsample: one call of getSubsampledData.  The call returns data at *)
(* once or suspends on setTimeout(resolve, 0); the switch runs when the    *)
(* timer fires.                                                            *)
(***************************************************************************)
InitSubsample ==
    /\ ssData \in SubsampleDatasets
    /\ ssSize \in SubsampleSizes
    /\ ssMethod \in SamplingMethods
    /\ ssResult = NotCalled
    /\ ClassifyIdle
    /\ RunIdle
    /\ DistanceIdle

SubsampleCall ==
    /\ ssData # << >>
    /\ ssResult.kind = "none"
    /\ ssResult' = IF ReturnsData(Len(ssData), ssSize)
                   THEN Returned(Positions(Len(ssData)), TRUE)
                   ELSE Pending
    /\ UNCHANGED << ssData, ssSize, ssMethod, classifyVars, runVars, distanceVars >>

SubsampleTimer ==
    /\ ssResult.kind = "pending"
    /\ \E r \in SwitchResults(ssData, ssSize, ssMethod) : ssResult' = r
    /\ ssData' = DataAfterSwitch(ssData, ssMethod)
    /\ UNCHANGED << ssSize, ssMethod, classifyVars, runVars, distanceVars >>

NextSubsample == SubsampleCall \/ SubsampleTimer

SpecSubsample == InitSubsample /\ [][NextSubsample]_vars

(***************************************************************************)
(* SpecRun: one invocation of updateChart (Chart.tsx:318-477) after the    *)
(* mount of Chart.  An invocation runs in up to three steps separated by   *)
(* the setTimeout(resolve, 0) of getSubsampledData and of getCovariance;   *)
(* timers of equal delay fire in the order they were set.                  *)
(***************************************************************************)
\* const DIMS = data[0].length
Dims(data) == Len(data[1])

\* The points of data at the positions of a subsample.
PointsAt(data, positions) == [i \in 1..Len(positions) |-> data[positions[i]]]

\* The number of invocations that have ended.
EndedCount(rs) ==
    Cardinality({ id \in 1..Len(rs) : rs[id].stage \in {"finished", "failed"} })

\* An invocation that has set its first timer; startedAfter is the number of
\* invocations that had ended when it started.
NewRun(p, stage, subsample, startedAfter) ==
    [props |-> p, stage |-> stage, subsample |-> subsample,
     startedAfter |-> startedAfter,
     covarianceInput |-> << >>, covMatrix |-> << >>, distances |-> << >>,
     classification |-> NotClassified,
     timersSet |-> 1, loadingFalse |-> 0, endedAt |-> 0]

\* A faulty variant of Finally, for sensitivity: no signal.
FinallySkipped(signals) == signals

\* finally { onLoadingChange?.(false) }: one more loading = false signal.
Finally(signals) == signals + 1

\* A faulty variant of SetState, for sensitivity: the state is kept.
SetStateIgnored(current, next) == current

\* setSelectedPointsCount, setCurrentPerformanceData,
\* setCurrentSelectedIndices: the new values replace the state whatever
\* invocation computed them.
SetState(current, next) == next

\* A faulty variant of ChartAfterThrow, for sensitivity: the performance
\* data is stored before the distances are computed.
ChartAfterThrowPartial(current, performance) ==
    [current EXCEPT !.currentPerformanceData = performance]

\* A throw of getMahalanobis leaves the try block before the three setState
\* calls, and there is no catch block: the state is not written.
ChartAfterThrow(current, performance) == current

InitRun ==
    /\ props \in RunConfigs
    /\ effectDue = TRUE
    /\ runs = << >>
    /\ timers = << >>
    /\ chart = InitialChart
    /\ loading = FALSE
    /\ performanceData = NoPerformanceData
    /\ ClassifyIdle
    /\ SubsampleIdle
    /\ DistanceIdle

\* The effect runs updateChart up to its first timer: onLoadingChange(true),
\* then getSubsampledData, which returns data at once or sets a timer, and
\* in the first case getCovariance, which sets a timer.
StartUpdate ==
    /\ effectDue
    /\ Len(props.data) # 0
    /\ effectDue' = FALSE
    /\ loading' = TRUE
    /\ runs' = Append(runs,
                 IF ~props.doSubsample
                      \/ ReturnsData(Len(props.data), props.subsampleSize)
                 THEN NewRun(props, "covariance",
                             Returned(Positions(Len(props.data)), TRUE),
                             EndedCount(runs))
                 ELSE NewRun(props, "subsample", Pending, EndedCount(runs)))
    /\ timers' = Append(timers, Len(runs) + 1)
    /\ UNCHANGED << props, chart, performanceData, classifyVars, subsampleVars, distanceVars >>

\* The timer of getSubsampledData fires: the switch runs; a throw goes to
\* the finally block, otherwise getCovariance is called and sets its timer.
SubsampleTimerFires ==
    /\ timers # << >>
    /\ runs[Head(timers)].stage = "subsample"
    /\ \E id \in {Head(timers)} :
       \E r \in SwitchResults(runs[id].props.data, runs[id].props.subsampleSize,
                              runs[id].props.samplingMethod) :
       \E after \in {DataAfterSwitch(runs[id].props.data,
                                     runs[id].props.samplingMethod)} :
          /\ props' = IF props.data = runs[id].props.data
                      THEN [props EXCEPT !.data = after]
                      ELSE props
          /\ IF r.kind = "thrown"
             THEN /\ runs' = ShareData(
                              [runs EXCEPT ![id].stage = "failed",
                                           ![id].subsample = r,
                                           ![id].loadingFalse = Finally(@),
                                           ![id].endedAt = EndedCount(runs) + 1],
                              runs[id].props.data, after)
                  /\ timers' = Tail(timers)
                  /\ loading' = FALSE
             ELSE /\ runs' = ShareData(
                              [runs EXCEPT ![id].stage = "covariance",
                                           ![id].subsample = r,
                                           ![id].timersSet = @ + 1],
                              runs[id].props.data, after)
                  /\ timers' = Append(Tail(timers), id)
                  /\ UNCHANGED loading
    /\ UNCHANGED << effectDue, chart, performanceData, classifyVars,
                    subsampleVars, distanceVars >>

PerformanceOf(p, positions) ==
    [totalPoints |-> Len(p.data), sampledPoints |-> Len(positions),
     method |-> p.samplingMethod]

\* The timer of getCovariance fires: the covariance of the subsample, the
\* performance report, the distance of every point of data, the sort, the
\* threshold, the selection, the three setState calls, and the finally
\* block.  inv throws in the first getMahalanobis call when the determinant
\* is zero.
CovarianceTimerFires ==
    /\ timers # << >>
    /\ runs[Head(timers)].stage = "covariance"
    /\ \E id \in {Head(timers)} :
       \E p \in {runs[id].props} :
       \E positions \in {runs[id].subsample.positions} :
       \E covMatrix \in {GetCovariance(PointsAt(p.data, positions), Dims(p.data))} :
          /\ performanceData' = PerformanceOf(p, positions)
          /\ IF InverseThrows(covMatrix)
             THEN /\ runs' = [runs EXCEPT ![id].stage = "failed",
                                          ![id].covarianceInput = positions,
                                          ![id].covMatrix = covMatrix,
                                          ![id].loadingFalse = Finally(@),
                                          ![id].endedAt = EndedCount(runs) + 1]
                  /\ chart' = ChartAfterThrow(chart, PerformanceOf(p, positions))
             ELSE \E distances \in {[i \in 1..Len(p.data) |->
                                       GetMahalanobis(p.data[i], p.selectedPoint,
                                                      covMatrix)]} :
                  \E sortedDistances \in SortOutcomes(distances) :
                  \E c \in {Classify(distances, p.percentage, sortedDistances)} :
                     /\ runs' = [runs EXCEPT ![id].stage = "finished",
                                             ![id].covarianceInput = positions,
                                             ![id].covMatrix = covMatrix,
                                             ![id].distances = distances,
                                             ![id].classification = c,
                                             ![id].loadingFalse = Finally(@),
                                             ![id].endedAt = EndedCount(runs) + 1]
                     /\ chart' = SetState(chart,
                          [selectedPointsCount    |-> SelectedCount(c.selected),
                           currentPerformanceData |-> PerformanceOf(p, positions),
                           currentSelectedIndices |->
                               { p.data[i] : i \in { j \in 1..Len(p.data) :
                                                       c.selected[j] } }])
    /\ timers' = Tail(timers)
    /\ loading' = FALSE
    /\ UNCHANGED << props, effectDue, classifyVars, subsampleVars, distanceVars >>

NextRun == StartUpdate \/ SubsampleTimerFires \/ CovarianceTimerFires

SpecRun == InitRun /\ [][NextRun]_vars

(***************************************************************************)
(* SpecOverlap: Chart re-renders with new props while invocations of       *)
(* updateChart are suspended; every change of the props runs the effect    *)
(* again, which starts a new invocation without ending the earlier ones.   *)
(* SpecOverlapFair adds that the effect runs and that a due timer fires.   *)
(***************************************************************************)
MaxUpdates == 2

Triangle == << << 0, 0 >>, << 1, 0 >>, << 0, 1 >> >>

OverlapConfigs ==
    { PropsOf(Square4, << 0, 0 >>, 50, FALSE, SizeUndefined, "random"),
      PropsOf(Square4, << 0, 0 >>, 50, TRUE, SizeOf(3), "systematic"),
      PropsOf(Square4, << 0, 0 >>, 50, TRUE, SizeOf(1), "cluster"),
      PropsOf(Triangle, << 0, 0 >>, PercentBase, TRUE, SizeOf(2), "random") }

InitOverlap ==
    /\ props \in OverlapConfigs
    /\ effectDue = TRUE
    /\ runs = << >>
    /\ timers = << >>
    /\ chart = InitialChart
    /\ loading = FALSE
    /\ performanceData = NoPerformanceData
    /\ ClassifyIdle
    /\ SubsampleIdle
    /\ DistanceIdle

\* App sets new parameters (the form, the dataset select, the subsampling
\* switch) and Chart renders with props that differ in a dependency of the
\* effect.
ChangeProps ==
    /\ Len(runs) + (IF effectDue THEN 1 ELSE 0) < MaxUpdates
    /\ props' \in OverlapConfigs \ {props}
    /\ effectDue' = TRUE
    /\ UNCHANGED << runs, timers, chart, loading, performanceData, classifyVars,
                    subsampleVars, distanceVars >>

NextOverlap ==
    \/ ChangeProps
    \/ StartUpdate
    \/ SubsampleTimerFires
    \/ CovarianceTimerFires

SpecOverlap == InitOverlap /\ [][NextOverlap]_vars

SpecOverlapFair ==
    /\ SpecOverlap
    /\ WF_vars(StartUpdate)
    /\ WF_vars(SubsampleTimerFires)
    /\ WF_vars(CovarianceTimerFires)

(***************************************************************************)
(* SpecDistance: getMahalanobis called on two points in both orders, with  *)
(* the covariance matrix of a dataset of two or more points.               *)
(***************************************************************************)
DistancePoints == { << x, y >> : x \in 0..MaxCoord, y \in 0..MaxCoord }

DistanceDatasets ==
    {Square4} \cup UNION { SeqsOver(UnitSquare, n) : n \in 2..(MaxRunLen + 1) }

\* What a call of getMahalanobis does: it throws when inv throws, otherwise
\* it returns a number.
DistanceOutcome(point1, point2, covMatrix) ==
    IF InverseThrows(covMatrix)
    THEN [kind |-> "thrown", value |-> NaN]
    ELSE [kind |-> "value", value |-> GetMahalanobis(point1, point2, covMatrix)]

InitDistance ==
    /\ dsPoint1 \in DistancePoints
    /\ dsPoint2 \in DistancePoints
    /\ dsCov \in { GetCovariance(d, 2) : d \in DistanceDatasets }
    /\ dsResult = NoDistance
    /\ ClassifyIdle
    /\ SubsampleIdle
    /\ RunIdle

DistanceCalls ==
    /\ ~dsResult.done
    /\ dsResult' = [done     |-> TRUE,
                    forward  |-> DistanceOutcome(dsPoint1, dsPoint2, dsCov),
                    backward |-> DistanceOutcome(dsPoint2, dsPoint1, dsCov)]
    /\ UNCHANGED << dsPoint1, dsPoint2, dsCov, classifyVars, subsampleVars, runVars >>

NextDistance == DistanceCalls

SpecDistance == InitDistance /\ [][NextDistance]_vars

(***************************************************************************)
(* Claims about the classification (SpecClassify).                         *)
(***************************************************************************)
\* floor(n * percentage / 100), exactly.
ExactFloor(n, percentage) == (n * percentage) \div PercentBase

AllNumbers(distances) == \A i \in 1..Len(distances) : ~IsNaN(distances[i])

PairwiseDistinct(distances) ==
    /\ AllNumbers(distances)
    /\ \A i, j \in 1..Len(distances) : distances[i] = distances[j] => i = j

\* C1: with the distances sorted ascending and thresholdIndex =
\* floor(|dataset| * percentage / 100), the threshold is
\* sortedDistances[thresholdIndex] when that index exists and +infinity
\* otherwise, and a point is selected iff its distance <= the threshold.
C1_ClassificationRule ==
    clResult.done =>
        LET n  == Len(clDistances)
            ti == ExactFloor(n, clPercentage)
        IN  /\ clResult.thresholdIndex = ti
            /\ AllNumbers(clDistances)
                 => /\ \A r \in 1..(n - 1) :
                          Leq(clResult.sortedDistances[r], clResult.sortedDistances[r + 1])
                    /\ Len(clResult.sortedDistances) = n
                    /\ \A v \in { clDistances[i] : i \in 1..n } :
                          Cardinality({ i \in 1..n : clDistances[i] = v })
                            = Cardinality({ r \in 1..n : clResult.sortedDistances[r] = v })
            /\ clResult.threshold
                 = (IF ti \in 0..(n - 1) THEN clResult.sortedDistances[ti + 1] ELSE PosInf)
            /\ \A i \in 1..n :
                 clResult.selected[i] <=> Leq(clDistances[i], clResult.threshold)

\* C2: with pairwise distinct distances and a percentage in [0, 100], the
\* number of selected points is exactly floor(|dataset| * percentage / 100).
C2_ExactCountWithoutTies ==
    (clResult.done /\ PairwiseDistinct(clDistances) /\ clPercentage \in 0..PercentBase)
        => SelectedCount(clResult.selected) = ExactFloor(Len(clDistances), clPercentage)

\* C3 as stated: for every dataset and percentage the number of selected
\* points is >= floor(|dataset| * percentage / 100).
C3_CountAtLeastFloor_Original ==
    clResult.done
        => SelectedCount(clResult.selected) >= ExactFloor(Len(clDistances), clPercentage)

\* C3 as amended: when no distance is NaN and the percentage is <= 100, the
\* number of selected points is >= floor(|dataset| * percentage / 100): ties
\* at the threshold only add selections.
C3_CountAtLeastFloor ==
    (clResult.done /\ AllNumbers(clDistances) /\ clPercentage <= PercentBase)
        => SelectedCount(clResult.selected) >= ExactFloor(Len(clDistances), clPercentage)

\* C3 witness: a classification in which a tie at the threshold adds a
\* selection beyond thresholdIndex + 1.
C3_Witness ==
    /\ clResult.done
    /\ AllNumbers(clDistances)
    /\ clPercentage \in 1..(PercentBase - 1)
    /\ \E i, j \in 1..Len(clDistances) :
          i # j /\ clDistances[i] = clDistances[j] /\ clDistances[i] = clResult.threshold
    /\ SelectedCount(clResult.selected) > clResult.thresholdIndex + 1

\* C4: for a non-empty dataset and a percentage < 0, thresholdIndex is
\* negative and no point is selected.
C4_NegativePercentageSelectsNothing ==
    (clResult.done /\ clPercentage < 0)
        => /\ clResult.thresholdIndex < 0
           /\ SelectedCount(clResult.selected) = 0

(***************************************************************************)
(* Claims about getSubsampledData (SpecSubsample).                         *)
(***************************************************************************)
SubsampleFinished == ssResult.kind \in {"returned", "thrown"}

\* C7: the cluster method with 1 <= targetSize < 50 (k = 0) and targetSize <
\* |dataset| returns an empty sequence and raises no error.
C7_ClusterZeroReturnsEmpty ==
    ( /\ SubsampleFinished
      /\ ssMethod = "cluster"
      /\ ssSize.defined
      /\ ssSize.value \in 1..(ClusterDivisor - 1)
      /\ ssSize.value < Len(ssData) )
        => ssResult.kind = "returned" /\ ssResult.positions = << >>

\* C8: for every method, a subsample size <= 0 raises no error and returns
\* the dataset unchanged.
C8_NonPositiveSizeNoSubsampling ==
    (SubsampleFinished /\ ssSize.defined /\ ssSize.value <= 0)
        => ssResult.kind = "returned" /\ ssResult.positions = Positions(Len(ssData))

\* C9: with targetSize undefined or targetSize >= |dataset|, every method
\* returns the dataset unchanged: same length, same elements, same order.
C9_IdentityWithoutTarget ==
    ( /\ ssData # << >>
      /\ ssResult.kind # "none"
      /\ ~ssSize.defined \/ ssSize.value >= Len(ssData) )
        => ssResult = Returned(Positions(Len(ssData)), TRUE)

\* C9 witness: a call with a target size >= |dataset| on a dataset of several
\* points has returned.
C9_Witness ==
    /\ ssResult.kind = "returned"
    /\ ssSize.defined
    /\ ssSize.value >= Len(ssData)
    /\ Len(ssData) >= 2
    /\ ssMethod = "random"

\* C10: for 1 <= targetSize < |dataset|, systematic subsampling returns
\* exactly targetSize points, in original relative order, each from an
\* original index that is a multiple of step = floor(|dataset| / targetSize);
\* 1000 points and targetSize 100 give the indices 0, 10, 20, ...
C10_SystematicExact ==
    ( /\ SubsampleFinished
      /\ ssMethod = "systematic"
      /\ ssSize.defined
      /\ ssSize.value \in 1..(Len(ssData) - 1) )
        => LET n    == Len(ssData)
               step == n \div ssSize.value
               pos  == ssResult.positions
           IN  /\ ssResult.kind = "returned"
               /\ Len(pos) = ssSize.value
               /\ \A i \in 1..(Len(pos) - 1) : pos[i] < pos[i + 1]
               /\ \A i \in 1..Len(pos) : pos[i] \in 1..n /\ (pos[i] - 1) % step = 0
               /\ (n = 1000 /\ ssSize.value = 100)
                    => pos = [i \in 1..100 |-> 10 * (i - 1) + 1]

\* C10 witness: the systematic subsample of 1000 points with target 100 has
\* been returned.
C10_Witness ==
    /\ ssResult.kind = "returned"
    /\ ssMethod = "systematic"
    /\ Len(ssData) = 1000
    /\ ssSize = SizeOf(100)

IsInjective(seq) == \A i, j \in 1..Len(seq) : seq[i] = seq[j] => i = j

C16_NaNNeverSelected ==
    clResult.done =>
        /\ Len(clResult.selected) = Len(clDistances)
        /\ \A i \in 1..Len(clDistances) :
              IsNaN(clDistances[i]) => ~clResult.selected[i]

\* C16 witness: a classification of NaN and non-NaN distances whose threshold
\* is +infinity has selected every non-NaN distance and no NaN distance.
C16_Witness ==
    /\ clResult.done
    /\ clResult.threshold = PosInf
    /\ \E i, j \in 1..Len(clDistances) :
          /\ IsNaN(clDistances[i])
          /\ ~clResult.selected[i]
          /\ ~IsNaN(clDistances[j])
          /\ clResult.selected[j]

NonNaN(distances) == SelectSeq(distances, LAMBDA d : ~IsNaN(d))

\* C17: when some distances are NaN and others are not, the NaN distances
\* rank after every non-NaN distance, and whenever thresholdIndex is smaller
\* than the number of non-NaN distances the threshold is the
\* thresholdIndex-th smallest non-NaN distance.
C17_NaNRanksLast ==
    ( /\ clResult.done
      /\ NonNaN(clDistances) # << >>
      /\ NonNaN(clDistances) # clDistances )
        => /\ \A r, s \in 1..Len(clResult.sortedDistances) :
                 (r < s /\ IsNaN(clResult.sortedDistances[r]))
                    => IsNaN(clResult.sortedDistances[s])
           /\ clResult.thresholdIndex \in 0..(Len(NonNaN(clDistances)) - 1)
                 => clResult.threshold
                      = SortAscending(NonNaN(clDistances))[clResult.thresholdIndex + 1]

\* The switch of a cluster call with k >= 1 clusters has run and returned.
ClusterBranchReturned ==
    /\ ssResult.kind = "returned"
    /\ ~ssResult.sameArray
    /\ ssMethod = "cluster"
    /\ ClusterCount(ssSize.value) >= 1

\* The squared Euclidean distance of two points of two coordinates.
Euclid2(p, q) == (p[1] - q[1]) * (p[1] - q[1]) + (p[2] - q[2]) * (p[2] - q[2])

\* The sum of the lengths of clusters[1..c].
RECURSIVE TotalLength(_, _)
TotalLength(clusters, c) ==
    IF c = 0 THEN 0 ELSE TotalLength(clusters, c - 1) + Len(clusters[c])

\* C24: for cluster subsampling with k >= 1, the centers are the first k
\* points of the dataset and every point is assigned to exactly one cluster,
\* the one whose center is at the minimum squared Euclidean distance, the
\* lowest center index winning ties; the cluster sizes sum to |dataset|.
C24_NearestCenterPartition ==
    ClusterBranchReturned =>
        \E k \in {ClusterCount(ssSize.value)} :
        \E clusters \in {ClustersOf(ssData, k)} :
        \E members \in {[c \in 1..k |->
                           { clusters[c][j] : j \in 1..Len(clusters[c]) }]} :
            /\ \A i \in 1..Len(ssData) :
                  \E c \in 1..k :
                     /\ i \in members[c]
                     /\ \A c2 \in 1..k :
                           /\ c2 # c => i \notin members[c2]
                           /\ Euclid2(ssData[i], ssData[c]) <= Euclid2(ssData[i], ssData[c2])
                           /\ Euclid2(ssData[i], ssData[c]) = Euclid2(ssData[i], ssData[c2])
                                 => c <= c2
            /\ \A c \in 1..k : Cardinality(members[c]) = Len(clusters[c])
            /\ TotalLength(clusters, k) = Len(ssData)

\* C24 witness: a dataset of 101 points has been split into two clusters of
\* more than one point each.
C24_Witness ==
    /\ ClusterBranchReturned
    /\ ClusterCount(ssSize.value) = 2
    /\ Len(ssData) = 101
    /\ \A c \in 1..2 : Len(ClustersOf(ssData, 2)[c]) > 1

\* floor(clusterLength * size / n) in exact arithmetic.
ExactQuota(clusterLength, n, size) == (clusterLength * size) \div n

\* The binary64 quota of every cluster of the call equals the exact quota.
QuotasExact ==
    \E k \in {ClusterCount(ssSize.value)} :
    \E clusters \in {ClustersOf(ssData, k)} :
        \A c \in 1..k :
            ClusterQuota(Len(clusters[c]), Len(ssData), ssSize.value)
               = ExactQuota(Len(clusters[c]), Len(ssData), ssSize.value)

\* C28: for cluster subsampling with k >= 1 clusters and
\* 50 <= targetSize < |dataset|, when every quota equals
\* floor(clusterSize * targetSize / |dataset|) computed exactly, the output
\* has at least targetSize - k + 1 points.
C28_ClusterLosesLessThanK ==
    (ClusterBranchReturned /\ ssSize.value >= ClusterDivisor
       /\ ssSize.value < Len(ssData) /\ QuotasExact)
        => Len(ssResult.positions) >= ssSize.value - ClusterCount(ssSize.value) + 1

\* C28 witness: two clusters whose exact quotas both round down, the output
\* being one point short of the target.
C28_Witness ==
    /\ ClusterBranchReturned
    /\ ssSize.value < Len(ssData)
    /\ QuotasExact
    /\ ClusterCount(ssSize.value) = 2
    /\ Len(ssResult.positions) = ssSize.value - 1

\* thresholdIndex for every dataset length of DistanceInputs and every
\* percentage of [0, 100].
ThresholdIndexTable ==
    [n \in (1..MaxLen) \cup RampSizes, percentage \in 0..PercentBase |->
        ThresholdIndex(n, percentage)]

\* isSelected of point i of the classified dataset at the percentage p2.
SelectedAt(i, p2) ==
    IsSelected(clDistances[i],
               ThresholdAt(clResult.sortedDistances,
                           ThresholdIndexTable[Len(clDistances), p2]))

\* C26: with non-NaN distances, for 0 <= p1 <= p2 <= 100 every point
\* selected at the percentage p1 is also selected at the percentage p2.
C26_MonotoneInPercentage ==
    (clResult.done /\ AllNumbers(clDistances) /\ clPercentage \in 0..PercentBase)
        => \A p2 \in clPercentage..PercentBase :
              \A i \in 1..Len(clDistances) :
                 clResult.selected[i] => SelectedAt(i, p2)

\* C26 witness: a classification that selects some points but not all, and
\* a larger percentage that selects strictly more of them.
C26_Witness ==
    /\ clResult.done
    /\ AllNumbers(clDistances)
    /\ clPercentage \in 1..(PercentBase - 1)
    /\ \E i, j \in 1..Len(clDistances) :
          clResult.selected[i] /\ ~clResult.selected[j]
    /\ \E p2 \in (clPercentage + 1)..(PercentBase - 1) :
          /\ \A i \in 1..Len(clDistances) : clResult.selected[i] => SelectedAt(i, p2)
          /\ \E j \in 1..Len(clDistances) : ~clResult.selected[j] /\ SelectedAt(j, p2)

\* The points of the classified dataset at the minimum distance.
MinimumDistancePoints ==
    { i \in 1..Len(clDistances) :
        \A j \in 1..Len(clDistances) : Leq(clDistances[i], clDistances[j]) }

\* C27: for a non-empty dataset with non-NaN distances and a percentage in
\* [0, 100], at least one point is selected; at percentage 0 the selected
\* points are exactly the points at the minimum distance.
C27_SomePointSelected ==
    (clResult.done /\ AllNumbers(clDistances) /\ clPercentage \in 0..PercentBase)
        => /\ SelectedCount(clResult.selected) >= 1
           /\ clPercentage = 0 =>
                 { i \in 1..Len(clDistances) : clResult.selected[i] }
                    = MinimumDistancePoints

\* C27 witness: a classification at percentage 0 of a dataset whose minimum
\* distance is shared by two points and exceeded by a third.
C27_Witness ==
    /\ clResult.done
    /\ AllNumbers(clDistances)
    /\ clPercentage = 0
    /\ Cardinality(MinimumDistancePoints) = 2
    /\ Len(clDistances) = 3
    /\ SelectedCount(clResult.selected) = 2

\* A systematic call with 1 <= targetSize < |dataset| has returned.
SystematicBranchReturned ==
    /\ ssResult.kind = "returned"
    /\ ssMethod = "systematic"
    /\ ssSize.defined
    /\ ssSize.value >= 1
    /\ ssSize.value < Len(ssData)

\* C25 as stated: for 1 <= targetSize < |dataset|, the number of indices
\* below |dataset| that are multiples of step = floor(|dataset| / targetSize)
\* is at most targetSize + 1.
C25_StrideOvershoot_Original ==
    SystematicBranchReturned =>
        Len(StrideIndices(Len(ssData), ssSize.value)) <= ssSize.value + 1

\* C25: for 1 <= targetSize < |dataset|, the number of indices below
\* |dataset| that are multiples of step = floor(|dataset| / targetSize) is at
\* least targetSize and at most 2 * targetSize - 1.
C25_StrideOvershoot ==
    SystematicBranchReturned =>
        /\ Len(StrideIndices(Len(ssData), ssSize.value)) >= ssSize.value
        /\ Len(StrideIndices(Len(ssData), ssSize.value)) <= 2 * ssSize.value - 1

\* C25 witness: a stride that passes the target by more than one element
\* before the truncation.
C25_Witness ==
    /\ SystematicBranchReturned
    /\ Len(StrideIndices(Len(ssData), ssSize.value)) > ssSize.value + 1
    /\ Len(ssResult.positions) = ssSize.value

(***************************************************************************)
(* Claims about the pipeline (SpecRun).                                    *)
(***************************************************************************)
RunEnded(r) == r.stage \in {"finished", "failed"}

\* C5: for the dataset [[0,0],[10,0],[0,10],[10,10]] with the covariance
\* estimated from the full dataset, reference point [0,0] and percentage 50,
\* thresholdIndex is 2 and exactly two points are selected: [0,0] itself and
\* one of its axis neighbours.
C5_SquareScenarioSelectsTwo ==
    \A id \in 1..Len(runs) :
        ( /\ runs[id].stage = "finished"
          /\ runs[id].props.data = Square4
          /\ runs[id].props.selectedPoint = << 0, 0 >>
          /\ runs[id].props.percentage = 50
          /\ runs[id].covarianceInput = Positions(Len(Square4)) )
        => /\ runs[id].classification.thresholdIndex = 2
           /\ SelectedCount(runs[id].classification.selected) = 2
           /\ runs[id].classification.selected[1]
           /\ runs[id].classification.selected[2]
                \/ runs[id].classification.selected[3]

\* C6: in every pipeline run, whatever the subsample size and method, every
\* point of the full dataset receives a distance and a selected flag, and the
\* subsampled working set is the input of the covariance estimate only.
C6_EveryRunClassifiesAllPoints ==
    \A id \in 1..Len(runs) :
        RunEnded(runs[id]) =>
            /\ Len(runs[id].distances) = Len(runs[id].props.data)
            /\ Len(runs[id].classification.selected) = Len(runs[id].props.data)
            /\ runs[id].covarianceInput = runs[id].subsample.positions

\* C12: each pipeline invocation suspends exactly once, for every
\* configuration: an invocation that has ended has waited for exactly one
\* timer.
C12_SingleSuspension ==
    \A id \in 1..Len(runs) : RunEnded(runs[id]) => runs[id].timersSet = 1

\* The invocation computed a covariance matrix whose determinant is zero.
SingularCovariance(r) ==
    /\ RunEnded(r)
    /\ r.covMatrix # << >>
    /\ Determinant(r.covMatrix) = Fin(0, 1)

IsDegenerate(a) == a.k \in {"nan", "inf"}

\* C15: when the covariance matrix is singular, every distance is a
\* degenerate value (NaN or Infinity), no error is raised, and the run
\* completes with a classification.
C15_SingularGivesDegenerateDistance ==
    \A id \in 1..Len(runs) :
        SingularCovariance(runs[id]) =>
            /\ runs[id].stage = "finished"
            /\ Len(runs[id].distances) = Len(runs[id].props.data)
            /\ \A i \in 1..Len(runs[id].distances) :
                  IsDegenerate(runs[id].distances[i])

\* The working set an invocation passed to getCovariance.
WorkingSet(r) == PointsAt(r.props.data, r.covarianceInput)

\* n^2 times the sum over points[1..k] of (p[i] - mean[i]) * (p[j] - mean[j]),
\* in integers: the sum of (n * p[i] - sum[i]) * (n * p[j] - sum[j]).
RECURSIVE ScaledProducts(_, _, _, _)
ScaledProducts(points, i, j, k) ==
    IF k = 0 THEN 0
    ELSE ScaledProducts(points, i, j, k - 1)
           + (Len(points) * points[k][i] - CoordinateSum(points, i, Len(points)))
               * (Len(points) * points[k][j] - CoordinateSum(points, j, Len(points)))

\* C18: for a working set of n >= 2 points, getCovariance returns
\* C[i][j] = (sum over the points of (p[i] - mean[i]) * (p[j] - mean[j]))
\* / (n - 1); for [[0,0],[10,0],[0,10],[10,10]] this is 100/3 on the diagonal
\* and 0 off the diagonal.
C18_SampleCovariance ==
    \A id \in 1..Len(runs) :
        (runs[id].covMatrix # << >> /\ Len(runs[id].covarianceInput) >= 2) =>
            LET points == WorkingSet(runs[id])
                n      == Len(points)
            IN  /\ \A i, j \in 1..2 :
                      runs[id].covMatrix[i][j]
                        = Fin(ScaledProducts(points, i, j, n), n * n * (n - 1))
                /\ points = Square4 =>
                      runs[id].covMatrix
                        = << << Fin(100, 3), Fin(0, 1) >>,
                             << Fin(0, 1), Fin(100, 3) >> >>

\* C18 witness: an invocation has estimated the covariance of the four
\* corners and finished.
C18_Witness ==
    \E id \in 1..Len(runs) :
        /\ runs[id].stage = "finished"
        /\ WorkingSet(runs[id]) = Square4
        /\ runs[id].covMatrix[1][1] = Fin(100, 3)

\* The comparison == of two JavaScript numbers: NaN equals nothing.
JsEq(a, b) == a.k # "nan" /\ b.k # "nan" /\ a = b

\* C19 as stated: for every dataset, C[i][j] == C[j][i] for all i, j.
C19_Symmetric_Original ==
    \A id \in 1..Len(runs) :
        runs[id].covMatrix # << >> =>
            \A i, j \in 1..2 :
                JsEq(runs[id].covMatrix[i][j], runs[id].covMatrix[j][i])

\* C19: the matrix returned by getCovariance for a working set of n # 1
\* points is exactly symmetric, C[i][j] == C[j][i] for all i, j; for a
\* working set of one point every entry is NaN.
C19_Symmetric ==
    \A id \in 1..Len(runs) :
        runs[id].covMatrix # << >> =>
            \A i, j \in 1..2 :
                IF Len(runs[id].covarianceInput) = 1
                THEN IsNaN(runs[id].covMatrix[i][j])
                ELSE JsEq(runs[id].covMatrix[i][j], runs[id].covMatrix[j][i])

\* C19 witness: a covariance with a negative off-diagonal entry has been
\* estimated from three points.
C19_Witness ==
    \E id \in 1..Len(runs) :
        /\ runs[id].covMatrix # << >>
        /\ Len(runs[id].covarianceInput) = 3
        /\ runs[id].covMatrix[1][2] = Fin(0 - 50, 3)
        /\ JsEq(runs[id].covMatrix[1][2], runs[id].covMatrix[2][1])

\* C20: in every pipeline run, for every dataset of at least one point and
\* every subsample size and method, getCovariance is invoked only with a
\* working set of at least 2 points.
C20_CovarianceOfTwoOrMore ==
    \A id \in 1..Len(runs) :
        ( /\ Len(runs[id].props.data) >= 1
          /\ runs[id].stage \in {"covariance", "finished", "failed"}
          /\ runs[id].subsample.kind = "returned" )
        => Len(runs[id].subsample.positions) >= 2

(***************************************************************************)
(* Claims about overlapping invocations (SpecOverlap, SpecOverlapFair).    *)
(***************************************************************************)
\* C13: every invocation of updateChart that has started eventually ends,
\* whatever invocations start while it is suspended, and it signals
\* loading = false exactly once, at its end, when it succeeds and when a step
\* throws.
C13_EveryInvocationEnds ==
    /\ [](\A id \in 1..Len(runs) :
             runs[id].loadingFalse = IF RunEnded(runs[id]) THEN 1 ELSE 0)
    /\ \A id \in 1..MaxUpdates :
          (Len(runs) >= id) ~> (Len(runs) >= id /\ RunEnded(runs[id]))

\* C13 witness: two invocations overlapped, the first one threw, the second
\* one succeeded, and each has signalled loading = false once.
C13_Witness ==
    /\ Len(runs) >= 2
    /\ runs[2].startedAfter = 0
    /\ runs[1].stage = "failed"
    /\ runs[2].stage = "finished"
    /\ runs[1].loadingFalse = 1
    /\ runs[2].loadingFalse = 1

FinishedRuns == { id \in 1..Len(runs) : runs[id].stage = "finished" }

\* The state an invocation applies when it finishes, from what it computed.
ResultOf(r) ==
    [selectedPointsCount    |-> SelectedCount(r.classification.selected),
     currentPerformanceData |->
         [totalPoints   |-> Len(r.props.data),
          sampledPoints |-> Len(r.covarianceInput),
          method        |-> r.props.samplingMethod],
     currentSelectedIndices |->
         { r.props.data[i] : i \in { j \in 1..Len(r.props.data) :
                                       r.classification.selected[j] } }]

\* C14: every invocation that finishes applies its result, so the state of
\* Chart (selected count, selected set, performance data) is always that of
\* the invocation that finished last, whichever was issued last.
C14_LastFinisherWins ==
    IF FinishedRuns = {} THEN chart = InitialChart
    ELSE \E last \in FinishedRuns :
            /\ \A id \in FinishedRuns : runs[id].endedAt <= runs[last].endedAt
            /\ chart = ResultOf(runs[last])

\* C14 witness: the first invocation, with subsampling, overlapped the
\* second, without, finished after it, and its result is the final state.
C14_Witness ==
    /\ Len(runs) >= 2
    /\ timers = << >>
    /\ runs[1].props.doSubsample
    /\ ~runs[2].props.doSubsample
    /\ runs[2].startedAfter = 0
    /\ runs[1].stage = "finished"
    /\ runs[2].stage = "finished"
    /\ runs[1].endedAt > runs[2].endedAt
    /\ chart = ResultOf(runs[1])
    /\ chart # ResultOf(runs[2])

(***************************************************************************)
(* Claims about the frame of the pipeline steps (SpecOverlap).             *)
(***************************************************************************)
\* C21: no pipeline step modifies its inputs: in every step, the dataset
\* (content and order) and the reference point of every invocation, those of
\* the invocations that overlap it included, and its covariance matrix once
\* returned, are the same after the step as before it.
C21_InputsNotModified ==
    [][ /\ \A id \in 1..Len(runs) :
             /\ runs'[id].props = runs[id].props
             /\ runs[id].covMatrix # << >>
                   => runs'[id].covMatrix = runs[id].covMatrix
        /\ props' # props => effectDue' ]_vars

\* C21 witness: two overlapping invocations on the same dataset, the first
\* of which subsampled it, have finished and the dataset is the one they
\* were given.
C21_Witness ==
    /\ Len(runs) >= 2
    /\ runs[2].startedAfter = 0
    /\ runs[1].props.data = Square4
    /\ runs[2].props.data = Square4
    /\ runs[1].subsample.kind = "returned"
    /\ ~runs[1].subsample.sameArray
    /\ runs[1].stage = "finished"
    /\ runs[2].stage = "finished"

(***************************************************************************)
(* Claims about getMahalanobis (SpecDistance).                             *)
(***************************************************************************)
\* C22: for all points a, b and every covariance matrix C, distance(a, b, C)
\* equals distance(b, a, C): the same value, or the same error when C cannot
\* be inverted.
C22_DistanceSymmetric ==
    dsResult.done =>
        /\ dsResult.forward.kind = dsResult.backward.kind
        /\ dsResult.forward.kind = "value"
              => JsEq(dsResult.forward.value, dsResult.backward.value)

\* C22 witness: a non-zero distance between two different points has been
\* computed in both orders.
C22_Witness ==
    /\ dsResult.done
    /\ dsPoint1 # dsPoint2
    /\ dsResult.forward.kind = "value"
    /\ dsResult.forward.value # Fin(0, 1)
    /\ dsCov[1][2] # Fin(0, 1)

\* C23: for every symmetric, invertible covariance matrix C and every point
\* x, distance(x, x, C) is 0.
C23_DistanceToSelfIsZero ==
    ( /\ dsResult.done
      /\ dsPoint1 = dsPoint2
      /\ dsCov[1][2] = dsCov[2][1]
      /\ ~InverseThrows(dsCov) )
        => dsResult.forward = [kind |-> "value", value |-> Fin(0, 1)]

\* C23 witness: the distance of a point other than the origin to itself
\* has been computed with an invertible matrix.
C23_Witness ==
    /\ dsResult.done
    /\ dsPoint1 = dsPoint2
    /\ dsPoint1 # << 0, 0 >>
    /\ dsResult.forward.kind = "value"

(***************************************************************************)
(* Claims about the loading signal and the result state (SpecOverlap).     *)
(***************************************************************************)
InFlight == { id \in 1..Len(runs) : ~RunEnded(runs[id]) }

\* C29: whenever at least one invocation of updateChart is in flight
\* (started and not yet ended), including when invocations overlap, the last
\* value delivered through onLoadingChange is true.
C29_LoadingWhileInFlight ==
    InFlight # {} => loading = TRUE

\* Invocation id fails in the step.
FailsInStep(id) == runs[id].stage # "failed" /\ runs'[id].stage = "failed"

\* Invocation id finishes in the step.
FinishesInStep(id) == runs[id].stage # "finished" /\ runs'[id].stage = "finished"

\* C30: the step in which an invocation of updateChart fails leaves
\* selectedPointsCount, currentPerformanceData and currentSelectedIndices as
\* they were, and the three fields only change together, in the step in which
\* an invocation completes its classification, to the result of that
\* invocation.
C30_FailureKeepsResultState ==
    [][ /\ \A id \in 1..Len(runs) : FailsInStep(id) => chart' = chart
        /\ chart' # chart =>
              \E id \in 1..Len(runs) :
                 FinishesInStep(id) /\ chart' = ResultOf(runs'[id]) ]_vars

\* C30 witness: the first invocation has finished and set the state, the
\* second has reported its performance data and then failed on a singular
\* covariance matrix, and the state is still the result of the first.
C30_Witness ==
    /\ Len(runs) >= 2
    /\ runs[1].stage = "finished"
    /\ runs[2].stage = "failed"
    /\ runs[2].covMatrix # << >>
    /\ runs[2].endedAt > runs[1].endedAt
    /\ chart = ResultOf(runs[1])
    /\ chart # InitialChart
    /\ performanceData # chart.currentPerformanceData

=============================================================================
